---- MODULE Spec2Model ----
(***************************************************************************)
(* Model of src/main.py: the background worker (worker_thread) that drives *)
(* one ffmpeg subprocess per input file and reports through a Queue, the   *)
(* Tk poller (main.poll_queue) that drains the queue, and the user's       *)
(* cancel button (ProgressDialog.on_cancel).                               *)
(*                                                                         *)
(* Units: wall time is counted in steps of 100 ms, and the clock is kept   *)
(* relative to last_emit (since_emit = time.time() - last_emit);           *)
(* out_time_ms values and `processed` are kept in microseconds (the code   *)
(* divides by 1_000_000.0, which preserves order).                         *)
(* Payload fields that carry text only (file names and paths, the probed   *)
(* duration, the error message, the speed token) are reduced to the file's *)
(* position in the list and to whether a speed token was seen.             *)
(*                                                                         *)
(* Spec is the whole program.  FairWorkerSpec is worker_thread with its    *)
(* subprocesses alone, ParserSpec one job fed with every kind of progress  *)
(* line, and PathSpec the batch reduced to its output paths                *)
(* (ensure_unique_path over the content of out_dir).                       *)
(***************************************************************************)
EXTENDS Integers, Sequences, FiniteSets, TLC

\* ---------------------------------------------------------------- bounds
MaxFiles == 2
MaxLines == 2
MaxParseLines == 3

\* ------------------------------------------------------- program constants
\* line 387: 0.2 s, in steps of 100 ms
EmitPeriod == 2
\* Python's None (proc.returncode of a running process, an unparsable value)
NoneVal == -99

\* ------------------------------------------------------------ input sets
FileCounts == 1..MaxFiles
Lines ==
    {[key |-> "out_time_ms", val |-> 1000000], [key |-> "blank", val |-> 0]}
Dts == {0, EmitPeriod}
\* the progress lines ffmpeg may write, for the model of one job's parser:
\* out_time_ms going up, down, below zero and unparsable, a speed line, a
\* key the parser does not know, and a blank line
RichLines ==
    {[key |-> "out_time_ms", val |-> 1000000],
     [key |-> "out_time_ms", val |-> 2000000],
     [key |-> "out_time_ms", val |-> -1000000],
     [key |-> "out_time_ms", val |-> NoneVal],
     [key |-> "speed", val |-> 0],
     [key |-> "progress", val |-> 0],
     [key |-> "blank", val |-> 0]}
RichDts == 0..EmitPeriod
ExitCodes == {0, 1}
CancelOutcomes == {"terminate_raises", "exited_in_time", "timeout_killed"}

VARIABLES
    total,          \* len(files)
    stop_flag,      \* threading.Event shared by worker and poller
    pc,             \* control position of worker_thread
    threadAlive,    \* t.is_alive()
    idx,            \* enumerate(files, 1) position
    done,           \* worker's count of successful files
    procAlive,      \* the current subprocess has not exited
    stdoutOpen,     \* the current subprocess still holds its stdout open
    orphans,        \* subprocesses still alive that `proc` no longer names
    returncode,     \* proc.returncode once it has exited
    pipe,           \* lines written to proc.stdout and not yet read
    linesLeft,      \* lines the subprocesses of this run may still write
    processed,      \* parser state: time position
    speed,          \* parser state: speed token seen
    since_emit,     \* wall time elapsed since last_emit was set
    events,         \* every event ever put on q, in order
    queue,          \* q: events put and not yet taken
    handled,        \* events poll_queue has handled, in order
    pollPc,         \* control position of poll_queue
    dlg_cancelled,  \* dlg.cancelled
    done_mode,      \* dlg._done_mode
    done_count,     \* poll_queue's own count of ok end_file
    ui_overall,     \* value last passed to dlg.set_overall
    result,         \* history: per file, how its job ended
    flagSetDuring,  \* history: file whose subprocess ran when stop_flag was set
    seenMax,        \* history: greatest valid out_time_ms read in this job
    seenSpeed,      \* history: a speed line was read in this job
    seenLower,      \* history: an out_time_ms line of this job was malformed
                    \* or below a value read before it
    lastGap,        \* history: now - last_emit when the latest prog_file of
                    \* this job was put, i.e. the wall time since the one
                    \* before it, or since line 353 for the first
    cands,          \* per file, out_dir / out_name before ensure_unique_path
    disk,           \* the paths that exist in out_dir
    out_path,       \* the path ensure_unique_path returned for this job
    produced        \* history: the files the jobs of this batch have written

vars == <<total, stop_flag, pc, threadAlive, idx, done, procAlive,
          stdoutOpen, orphans,
          returncode, pipe, linesLeft, processed, speed, since_emit,
          events, queue, handled, pollPc, dlg_cancelled, done_mode,
          done_count, ui_overall, result, flagSetDuring, seenMax,
          seenSpeed, seenLower, lastGap, cands, disk, out_path, produced>>

workerVars ==
    <<pc, threadAlive, idx, done, processed, speed, since_emit, result>>
procVars == <<procAlive, stdoutOpen, orphans, returncode, pipe, linesLeft>>
uiVars == <<handled, pollPc, dlg_cancelled, done_mode, done_count, ui_overall>>
seenVars == <<seenMax, seenSpeed, seenLower, lastGap>>
pathVars == <<cands, disk, out_path, produced>>

\* ------------------------------------------------------------- paths
\* A path in out_dir is the sequence of its name's parts: <<s>> is the name
\* with stem s and the output suffix, and Append(p, i) is line 137,
\* p.with_name(f"{stem}_{i}{suffix}").  So <<1, 1>> is both the first
\* numbered variant of <<1>> and a name an input file may lead to itself.
with_index(p, i) == Append(p, i)

\* lines 135-140 with the loop left after its first round
probe_once(p, i, d) == with_index(p, i)

\* lines 135-140: the first i, counting from the given one, whose numbered
\* variant does not exist
RECURSIVE probe(_, _, _)
probe(p, i, d) ==
    IF with_index(p, i) \notin d THEN with_index(p, i) ELSE probe(p, i + 1, d)

\* lines 130-140
ensure_unique_path(p, d) ==
    IF p \notin d THEN p ELSE probe(p, 1, d)

\* the names out_dir / out_name of lines 316-320 may take, and the names
\* that may exist in out_dir before the batch
CandNames == {<<1>>, <<1, 1>>}
DiskNames == {<<1>>, <<1, 1>>, <<1, 2>>}

\* ------------------------------------------------------------- events
Ev(t) == [type |-> t, name |-> 0, ok |-> FALSE, done |-> 0, total |-> 0,
          processed |-> 0, speed |-> FALSE]

StartFileEv(i) == [Ev("start_file") EXCEPT !.name = i]
ProgFileEv(p, s) == [Ev("prog_file") EXCEPT !.processed = p, !.speed = s]
EndFileEv(i, k) == [Ev("end_file") EXCEPT !.name = i, !.ok = k]
OverallEv(d, n) == [Ev("overall") EXCEPT !.done = d, !.total = n]

\* q.put(e) on a queue that hands out the newest message first
PutFront(es) ==
    /\ events' = events \o es
    /\ queue' = es \o queue

\* q.put(e)
Put(es) ==
    /\ events' = events \o es
    /\ queue' = queue \o es

\* ------------------------------------------------------------ the parser
\* lines 376-382 without the `v >= processed` test of line 379
ParseProcessedAny(line, p) ==
    IF line.key = "out_time_ms" /\ line.val # NoneVal
    THEN line.val
    ELSE p

\* lines 376-382: out_time_ms is applied only if it parses and is >= processed
ParseProcessed(line, p) ==
    IF line.key = "out_time_ms" /\ line.val # NoneVal /\ line.val >= p
    THEN line.val
    ELSE p

\* what lines 376-382 are to compute: the greatest out_time_ms value that
\* parsed, and never less than the initial 0.0 of line 351
SeenMaxAfter(line, m) ==
    IF line.key = "out_time_ms" /\ line.val # NoneVal /\ line.val > m
    THEN line.val
    ELSE m

\* lines 383-384: a speed line stores its token
ParseSpeed(line, s) ==
    IF line.key = "speed" THEN TRUE ELSE s

\* line 387 without the test
ShouldEmitAlways(elapsed) == TRUE

\* lines 386-387: the throttle, on now - last_emit
ShouldEmit(elapsed) == elapsed >= EmitPeriod

\* lines 360-368: terminate, wait up to 1.5 s, kill if still running.
\* The value is whether the subprocess is alive afterwards.
AliveAfterCancel(out, alive) ==
    IF out = "terminate_raises" THEN alive ELSE FALSE

CancelCode(out) == IF out = "timeout_killed" THEN -9 ELSE -15

\* line 408 reporting a set flag as a cancellation
FinalEventByFlag(flag) == IF flag THEN Ev("cancelled") ELSE Ev("done_all")

\* line 408: the event put after the loop is done_all, whatever the flag is
FinalEvent(flag) == Ev("done_all")

\* line 406 with `return` in place of `break`
AfterReadFailReturn == "returned"

\* lines 399-406: a failure while reading breaks out of the loop
AfterReadFail == "finish"

\* lines 401-402 without the kill
AliveAfterReadFailNoKill(alive) == alive

\* lines 400-404: the subprocess is killed if it still runs
AliveAfterReadFail(alive) == FALSE

\* line 391 left out: the exit is not waited for
WaitSkipped(alive) == TRUE

\* line 391: proc.wait() returns once the subprocess has exited
WaitReturns(alive) == ~alive

\* line 311-313 without the stop_flag test
LoopExitNoFlag(i, n, flag) == i > n

\* lines 311-313: the for loop is left when the list is exhausted or the
\* flag is set
LoopExit(i, n, flag) == i > n \/ flag

\* line 349 with `return` in place of `break`
AfterLaunchFailReturn == "returned"

\* lines 347, 349: a launch failure breaks out of the loop
AfterLaunchFail == "finish"

\* line 394 without the `if ok` of line 393
NextDoneAlways(ok, d) == d + 1

\* line 393-394 without the increment
NextDoneStuck(ok, d) == d

\* lines 392-394: done counts the files whose exit code was zero
NextDone(ok, d) == IF ok THEN d + 1 ELSE d

\* line 396 guarded by ok
EndEventsOkOnly(i, ok, d, n) ==
    IF ok THEN <<EndFileEv(i, ok), OverallEv(d, n)>> ELSE <<OverallEv(d, n)>>

\* lines 396-397: end_file, then overall
EndEvents(i, ok, d, n) == <<EndFileEv(i, ok), OverallEv(d, n)>>

\* lines 392-397 with a failed file ending the batch
AfterEndFileAbort(ok) == IF ok THEN "loop" ELSE "finish"

\* lines 392-397, 311: after end_file the loop goes on, whatever ok is
AfterEndFile(ok) == "loop"

\* ------------------------------------------------------------------ Init
Init ==
    /\ total \in FileCounts
    /\ stop_flag = FALSE
    /\ pc = "mkdir"
    /\ threadAlive = TRUE
    /\ idx = 1
    /\ done = 0
    /\ procAlive = FALSE
    /\ stdoutOpen = FALSE
    /\ orphans = 0
    /\ returncode = NoneVal
    /\ pipe = 0
    /\ linesLeft = MaxLines
    /\ processed = 0
    /\ speed = FALSE
    /\ since_emit = 0
    /\ events = <<>>
    /\ queue = <<>>
    /\ handled = <<>>
    /\ pollPc = "scheduled"
    /\ dlg_cancelled = FALSE
    /\ done_mode = FALSE
    /\ done_count = 0
    /\ ui_overall = 0
    /\ result = [i \in 1..total |-> "none"]
    /\ flagSetDuring = 0
    /\ seenMax = 0
    /\ seenSpeed = FALSE
    /\ seenLower = FALSE
    /\ lastGap = NoneVal
    /\ cands = <<>>
    /\ disk = {}
    /\ out_path = <<>>
    /\ produced = {}

\* --------------------------------------------------------- worker_thread
\* line 309: out_dir.mkdir(parents=True, exist_ok=True) succeeds
Mkdir ==
    /\ pc = "mkdir"
    /\ pc' = "loop"
    /\ UNCHANGED <<total, stop_flag, threadAlive, idx, done, processed,
                   speed, since_emit, result, events, queue,
                   flagSetDuring>>
    /\ UNCHANGED procVars
    /\ UNCHANGED uiVars
    /\ UNCHANGED seenVars
    /\ UNCHANGED pathVars

\* line 309 raises (it is outside every try): the thread dies
MkdirFail ==
    /\ pc = "mkdir"
    /\ pc' = "crashed"
    /\ UNCHANGED <<total, stop_flag, threadAlive, idx, done, processed,
                   speed, since_emit, result, events, queue,
                   flagSetDuring>>
    /\ UNCHANGED procVars
    /\ UNCHANGED uiVars
    /\ UNCHANGED seenVars
    /\ UNCHANGED pathVars

\* lines 311-313: next file, or leave the loop
LoopTop ==
    /\ pc = "loop"
    /\ pc' = IF LoopExit(idx, total, stop_flag) THEN "finish" ELSE "prep"
    /\ UNCHANGED <<total, stop_flag, threadAlive, idx, done, processed,
                   speed, since_emit, result, events, queue,
                   flagSetDuring>>
    /\ UNCHANGED procVars
    /\ UNCHANGED uiVars
    /\ UNCHANGED seenVars
    /\ UNCHANGED pathVars

\* lines 316-323: resolve the output path, probe, put start_file
StartFile ==
    /\ pc = "prep"
    /\ Put(<<StartFileEv(idx)>>)
    /\ pc' = "launch"
    /\ UNCHANGED <<total, stop_flag, threadAlive, idx, done, processed, speed,
                   since_emit, result, flagSetDuring>>
    /\ UNCHANGED procVars
    /\ UNCHANGED uiVars
    /\ UNCHANGED seenVars
    /\ UNCHANGED pathVars

\* lines 337-345, 351-353: Popen succeeds
Launch ==
    /\ pc = "launch"
    /\ orphans' = orphans + (IF procAlive THEN 1 ELSE 0)
    /\ procAlive' = TRUE
    /\ stdoutOpen' = TRUE
    /\ returncode' = NoneVal
    /\ pipe' = 0
    /\ UNCHANGED linesLeft
    /\ processed' = 0
    /\ speed' = FALSE
    /\ since_emit' = 0
    /\ seenMax' = 0
    /\ seenSpeed' = FALSE
    /\ seenLower' = FALSE
    /\ lastGap' = NoneVal
    /\ pc' = "read"
    /\ UNCHANGED <<total, stop_flag, threadAlive, idx, done, result,
                   events, queue, flagSetDuring>>
    /\ UNCHANGED uiVars
    /\ UNCHANGED pathVars

\* lines 346-349: Popen raises
LaunchFail ==
    /\ pc = "launch"
    /\ Put(<<Ev("error")>>)
    /\ result' = [result EXCEPT ![idx] = "launch_fail"]
    /\ pc' = AfterLaunchFail
    /\ UNCHANGED <<total, stop_flag, threadAlive, idx, done, processed,
                   speed, since_emit, flagSetDuring>>
    /\ UNCHANGED procVars
    /\ UNCHANGED uiVars
    /\ UNCHANGED seenVars
    /\ UNCHANGED pathVars

\* lines 357-370: a line is read and the flag is found set
ReadLineCancel ==
    /\ pc = "read"
    /\ pipe > 0
    /\ stop_flag
    /\ pipe' = pipe - 1
    /\ \E out \in CancelOutcomes :
         /\ out = "timeout_killed" => procAlive
         /\ procAlive' = AliveAfterCancel(out, procAlive)
         /\ stdoutOpen' = (stdoutOpen /\ procAlive')
         /\ returncode' = IF procAlive /\ ~procAlive'
                          THEN CancelCode(out) ELSE returncode
    /\ Put(<<Ev("cancelled")>>)
    /\ result' = [result EXCEPT ![idx] = "cancelled"]
    /\ pc' = "returned"
    /\ UNCHANGED <<total, stop_flag, threadAlive, idx, done, processed,
                   speed, since_emit, linesLeft, flagSetDuring>>
    /\ UNCHANGED uiVars
    /\ UNCHANGED seenVars
    /\ UNCHANGED orphans
    /\ UNCHANGED pathVars

\* lines 357-358, 372-389: a line is read, parsed, and perhaps reported;
\* the line is one of LS and the wall time since the previous read one of DS
ReadLineOf(LS, DS) ==
    /\ pc = "read"
    /\ pipe > 0
    /\ ~stop_flag
    /\ pipe' = pipe - 1
    /\ \E line \in LS, dt \in DS :
         /\ seenMax' = SeenMaxAfter(line, seenMax)
         /\ seenSpeed' = (seenSpeed \/ line.key = "speed")
         /\ seenLower' = (seenLower \/ (/\ line.key = "out_time_ms"
                                        /\ \/ line.val = NoneVal
                                           \/ line.val < seenMax))
         /\ IF line.key = "blank"
            THEN /\ since_emit' = since_emit + dt
                 /\ UNCHANGED <<processed, speed, events, queue, lastGap>>
            ELSE /\ processed' = ParseProcessed(line, processed)
                 /\ speed' = ParseSpeed(line, speed)
                 /\ IF ShouldEmit(since_emit + dt)
                    THEN /\ since_emit' = 0
                         /\ lastGap' = since_emit + dt
                         /\ Put(<<ProgFileEv(processed', speed')>>)
                    ELSE /\ since_emit' = since_emit + dt
                         /\ UNCHANGED <<events, queue, lastGap>>
    /\ UNCHANGED <<total, stop_flag, pc, threadAlive, idx, done,
                   result, procAlive, returncode, linesLeft, flagSetDuring>>
    /\ UNCHANGED uiVars
    /\ UNCHANGED <<stdoutOpen, orphans>>
    /\ UNCHANGED pathVars

\* the progress lines of the batch model
ReadLine == ReadLineOf(Lines, Dts)

\* lines 399-406: reading raised
ReadFail ==
    /\ pc = "read"
    /\ procAlive' = AliveAfterReadFail(procAlive)
    /\ stdoutOpen' = (stdoutOpen /\ procAlive')
    /\ returncode' = IF procAlive /\ ~procAlive' THEN -9 ELSE returncode
    /\ Put(<<Ev("error")>>)
    /\ result' = [result EXCEPT ![idx] = "read_fail"]
    /\ pc' = AfterReadFail
    /\ UNCHANGED <<total, stop_flag, threadAlive, idx, done, processed,
                   speed, since_emit, pipe, linesLeft, flagSetDuring>>
    /\ UNCHANGED uiVars
    /\ UNCHANGED seenVars
    /\ UNCHANGED orphans
    /\ UNCHANGED pathVars

\* lines 357, 391-397: the output is at its end; wait for the exit, count,
\* put end_file and overall
EndFile ==
    /\ pc = "read"
    /\ pipe = 0
    /\ ~stdoutOpen
    /\ WaitReturns(procAlive)
    /\ LET ok == (returncode = 0)
           d == NextDone(ok, done)
       IN /\ done' = d
          /\ Put(EndEvents(idx, ok, d, total))
          /\ result' = [result EXCEPT ![idx] = IF ok THEN "ok" ELSE "fail"]
          /\ pc' = AfterEndFile(ok)
    /\ idx' = idx + 1
    /\ UNCHANGED <<total, stop_flag, threadAlive, processed, speed,
                   since_emit, flagSetDuring>>
    /\ UNCHANGED procVars
    /\ UNCHANGED uiVars
    /\ UNCHANGED seenVars
    /\ UNCHANGED pathVars

\* line 408
DoneAll ==
    /\ pc = "finish"
    /\ Put(<<FinalEvent(stop_flag)>>)
    /\ pc' = "returned"
    /\ UNCHANGED <<total, stop_flag, threadAlive, idx, done, processed,
                   speed, since_emit, result, flagSetDuring>>
    /\ UNCHANGED procVars
    /\ UNCHANGED uiVars
    /\ UNCHANGED seenVars
    /\ UNCHANGED pathVars

\* worker_thread has returned or raised: the thread ends
ThreadExit ==
    /\ pc \in {"returned", "crashed"}
    /\ threadAlive
    /\ threadAlive' = FALSE
    /\ UNCHANGED <<total, stop_flag, pc, idx, done, processed, speed,
                   since_emit, result, events, queue, flagSetDuring>>
    /\ UNCHANGED procVars
    /\ UNCHANGED uiVars
    /\ UNCHANGED seenVars
    /\ UNCHANGED pathVars

\* ------------------------------------------------- the ffmpeg subprocess
\* ffmpeg writes one more line to its stdout
ProcWrite ==
    /\ procAlive
    /\ stdoutOpen
    /\ linesLeft > 0
    /\ pipe' = pipe + 1
    /\ linesLeft' = linesLeft - 1
    /\ UNCHANGED <<procAlive, returncode>>
    /\ UNCHANGED <<total, stop_flag, events, queue, flagSetDuring>>
    /\ UNCHANGED workerVars
    /\ UNCHANGED uiVars
    /\ UNCHANGED seenVars
    /\ UNCHANGED <<stdoutOpen, orphans>>
    /\ UNCHANGED pathVars

\* ffmpeg closes its stdout before it exits: the `for line in proc.stdout`
\* of line 357 sees the end of the output while the process still runs
ProcCloseStdout ==
    /\ procAlive
    /\ stdoutOpen
    /\ stdoutOpen' = FALSE
    /\ UNCHANGED <<procAlive, orphans, returncode, pipe, linesLeft>>
    /\ UNCHANGED <<total, stop_flag, events, queue, flagSetDuring>>
    /\ UNCHANGED workerVars
    /\ UNCHANGED uiVars
    /\ UNCHANGED seenVars
    /\ UNCHANGED pathVars

\* ffmpeg exits by itself, which closes its stdout
ProcExit ==
    /\ procAlive
    /\ procAlive' = FALSE
    /\ stdoutOpen' = FALSE
    /\ \E rc \in ExitCodes : returncode' = rc
    /\ UNCHANGED <<pipe, linesLeft>>
    /\ UNCHANGED <<total, stop_flag, events, queue, flagSetDuring>>
    /\ UNCHANGED workerVars
    /\ UNCHANGED uiVars
    /\ UNCHANGED seenVars
    /\ UNCHANGED orphans
    /\ UNCHANGED pathVars

\* ------------------------------------------------------ main / poll_queue
\* lines 467-504: what handling one message does to the consumer's state
HandledDoneCount(msg, c) ==
    IF msg.type = "end_file" /\ msg.ok THEN c + 1 ELSE c

HandledOverall(msg, c, shown) ==
    CASE msg.type = "end_file" -> HandledDoneCount(msg, c)
      [] msg.type = "overall"  -> msg.done
      [] msg.type = "done_all" -> c
      [] OTHER                 -> shown

\* lines 487-497: cancelled makes poll_queue quit the main loop and return
AfterHandling(msg) ==
    IF msg.type = "cancelled" THEN "exited" ELSE "draining"

\* the value stop_flag.set() leaves in the history variable
FlagSetDuring ==
    IF ~stop_flag /\ pc = "read" /\ procAlive THEN idx ELSE flagSetDuring

\* line 518 / 520: the Tk timer fires and poll_queue starts
PollStart ==
    /\ pollPc = "scheduled"
    /\ pollPc' = "draining"
    /\ UNCHANGED <<handled, dlg_cancelled, done_mode, done_count, ui_overall>>
    /\ UNCHANGED <<total, stop_flag, events, queue, flagSetDuring>>
    /\ UNCHANGED workerVars
    /\ UNCHANGED procVars
    /\ UNCHANGED seenVars
    /\ UNCHANGED pathVars

\* lines 453-504: q.get_nowait() returns a message and it is handled.
\* After cancelled the main loop has quit and lines 524-525 set stop_flag.
PollGet ==
    /\ pollPc = "draining"
    /\ queue # <<>>
    /\ LET msg == Head(queue)
       IN /\ queue' = Tail(queue)
          /\ handled' = Append(handled, msg)
          /\ done_count' = HandledDoneCount(msg, done_count)
          /\ ui_overall' = HandledOverall(msg, done_count, ui_overall)
          /\ done_mode' = (done_mode \/ msg.type = "done_all")
          /\ pollPc' = AfterHandling(msg)
          /\ IF msg.type = "cancelled"
             THEN /\ stop_flag' = TRUE
                  /\ flagSetDuring' = FlagSetDuring
             ELSE UNCHANGED <<stop_flag, flagSetDuring>>
    /\ UNCHANGED <<total, events, dlg_cancelled>>
    /\ UNCHANGED workerVars
    /\ UNCHANGED procVars
    /\ UNCHANGED seenVars
    /\ UNCHANGED pathVars

\* lines 505-506: q.get_nowait() raises Empty
PollEmpty ==
    /\ pollPc = "draining"
    /\ queue = <<>>
    /\ pollPc' = "tail"
    /\ UNCHANGED <<handled, dlg_cancelled, done_mode, done_count, ui_overall>>
    /\ UNCHANGED <<total, stop_flag, events, queue, flagSetDuring>>
    /\ UNCHANGED workerVars
    /\ UNCHANGED procVars
    /\ UNCHANGED seenVars
    /\ UNCHANGED pathVars

\* lines 514-515: forward the user's cancel request to the worker
PollSetFlag ==
    /\ pollPc = "tail"
    /\ stop_flag' = (stop_flag \/ dlg_cancelled)
    /\ flagSetDuring' = IF dlg_cancelled THEN FlagSetDuring ELSE flagSetDuring
    /\ pollPc' = "alive_check"
    /\ UNCHANGED <<handled, dlg_cancelled, done_mode, done_count, ui_overall>>
    /\ UNCHANGED <<total, events, queue>>
    /\ UNCHANGED workerVars
    /\ UNCHANGED procVars
    /\ UNCHANGED seenVars
    /\ UNCHANGED pathVars

\* lines 517-518: poll again in 500 ms only while the worker is alive
PollReschedule ==
    /\ pollPc = "alive_check"
    /\ pollPc' = IF threadAlive THEN "scheduled" ELSE "stopped"
    /\ UNCHANGED <<handled, dlg_cancelled, done_mode, done_count, ui_overall>>
    /\ UNCHANGED <<total, stop_flag, events, queue, flagSetDuring>>
    /\ UNCHANGED workerVars
    /\ UNCHANGED procVars
    /\ UNCHANGED seenVars
    /\ UNCHANGED pathVars

\* lines 246-255: the user presses the button (or closes the window) while
\* the Tk loop is idle.  In the done mode this quits the main loop, after
\* which lines 524-525 set stop_flag.
OnCancel ==
    /\ pollPc \in {"scheduled", "stopped"}
    /\ IF done_mode
       THEN /\ pollPc' = "exited"
            /\ stop_flag' = TRUE
            /\ flagSetDuring' = FlagSetDuring
            /\ UNCHANGED dlg_cancelled
       ELSE /\ ~dlg_cancelled
            /\ dlg_cancelled' = TRUE
            /\ UNCHANGED <<pollPc, stop_flag, flagSetDuring>>
    /\ UNCHANGED <<handled, done_mode, done_count, ui_overall>>
    /\ UNCHANGED <<total, events, queue>>
    /\ UNCHANGED workerVars
    /\ UNCHANGED procVars
    /\ UNCHANGED seenVars
    /\ UNCHANGED pathVars

\* ------------------------------------------------------------------ Next
Next ==
    \/ Mkdir
    \/ MkdirFail
    \/ LoopTop
    \/ StartFile
    \/ Launch
    \/ LaunchFail
    \/ ReadLineCancel
    \/ ReadLine
    \/ ReadFail
    \/ EndFile
    \/ DoneAll
    \/ ThreadExit
    \/ ProcWrite
    \/ ProcCloseStdout
    \/ ProcExit
    \/ PollStart
    \/ PollGet
    \/ PollEmpty
    \/ PollSetFlag
    \/ PollReschedule
    \/ OnCancel

Spec == Init /\ [][Next]_vars

\* The steps the worker thread takes by itself: all of worker_thread but an
\* exception raised by the read.  At most one of them is enabled in a state.
WorkerRun ==
    \/ Mkdir
    \/ MkdirFail
    \/ LoopTop
    \/ StartFile
    \/ Launch
    \/ LaunchFail
    \/ ReadLine
    \/ ReadLineCancel
    \/ EndFile
    \/ DoneAll
    \/ ThreadExit

\* stop_flag.set() seen from worker_thread alone: the owner of the Event
\* (lines 514-515, 525) may set it at any moment of the run
SetStopFlag ==
    /\ ~stop_flag
    /\ stop_flag' = TRUE
    /\ flagSetDuring' = FlagSetDuring
    /\ UNCHANGED <<total, events, queue>>
    /\ UNCHANGED workerVars
    /\ UNCHANGED procVars
    /\ UNCHANGED uiVars
    /\ UNCHANGED seenVars
    /\ UNCHANGED pathVars

\* worker_thread and its subprocesses, with no consumer taking from q
NextWorker ==
    \/ WorkerRun
    \/ ReadFail
    \/ ProcWrite
    \/ ProcCloseStdout
    \/ ProcExit
    \/ SetStopFlag

\* Fairness for the liveness claims: the worker thread keeps running, a line
\* that is available is read, and ffmpeg eventually exits.  Nothing obliges
\* ffmpeg to write, a read to fail, or the flag to be set.
FairWorkerSpec ==
    /\ Init
    /\ [][NextWorker]_vars
    /\ WF_vars(WorkerRun)
    /\ WF_vars(ProcExit)

\* ------------------------------------------------ vocabulary of the claims
Positions(t) == {p \in DOMAIN events : events[p].type = t}
CountOf(t) == Cardinality(Positions(t))
Terminals == Positions("done_all") \cup Positions("cancelled")
EndsWithTerminal ==
    /\ events # <<>>
    /\ events[Len(events)].type \in {"done_all", "cancelled"}
Emitted(e) == \E p \in DOMAIN events : events[p] = e
WorkerOver == pc \in {"returned", "crashed"}

\* C1: the event stream of every run ends with exactly one terminal event
\* (done_all or cancelled), and nothing is emitted after it.
C1_OneTerminalEvent ==
    /\ Cardinality(Terminals) <= 1
    /\ \A p \in Terminals : p = Len(events)
    /\ WorkerOver => EndsWithTerminal

\* C2: if the flag is set while a subprocess is running, the run ends with
\* cancelled; for two files and a cancel during file 1 the stream is one
\* start_file, prog_file*, cancelled.
C2_CancelDuringRunEmitsCancelled ==
    (flagSetDuring # 0 /\ pc = "returned" /\ CountOf("error") = 0) =>
        /\ CountOf("cancelled") = 1
        /\ (total = 2 /\ flagSetDuring = 1) =>
              /\ CountOf("start_file") = 1
              /\ CountOf("end_file") = 0
              /\ CountOf("overall") = 0
              /\ CountOf("done_all") = 0

\* C3: when cancelled is in the stream the subprocess is no longer alive.
C3_NoSubprocessAtCancelled ==
    CountOf("cancelled") > 0 => ~procAlive

\* C4: once the flag was set while the subprocess of file i ran, no
\* start_file of a later file is emitted.
C4_NoStartAfterCancel ==
    flagSetDuring # 0 =>
        \A p \in Positions("start_file") : events[p].name <= flagSetDuring

C4_Witness ==
    /\ total = 2
    /\ flagSetDuring = 1
    /\ result[1] \in {"ok", "fail"}
    /\ pc = "returned"

\* the part of the stream that belongs to the start_file at position p:
\* from p to the next start_file, or to the end
NextStart(p) ==
    LET later == {q \in Positions("start_file") : q > p}
    IN IF later = {} THEN Len(events) + 1
       ELSE CHOOSE q \in later : \A r \in later : q <= r
Segment(p) == (p + 1)..(NextStart(p) - 1)
Closers(p) == {q \in Segment(p) : events[q].type \in {"end_file", "cancelled"}}
Aborted(p) == \E q \in Segment(p) : events[q].type = "error"
JobOpen ==
    \E p \in Positions("start_file") : Closers(p) = {} /\ ~Aborted(p)
JobsWellClosed ==
    \A p \in Positions("start_file") :
        /\ Cardinality(Closers(p)) <= 1
        /\ \A q \in Closers(p) :
              events[q].type = "end_file" => events[q].name = events[p].name
        /\ NextStart(p) <= Len(events) =>
              \E q \in Closers(p) : events[q].type = "end_file"

\* C5: every start_file is eventually followed, before the start_file of
\* another job, by exactly one of end_file of the same file or cancelled,
\* unless an error aborts the run first (ffmpeg eventually exits).
C5_StartFileIsClosed ==
    /\ []JobsWellClosed
    /\ JobOpen ~> ~JobOpen

C5_Witness ==
    /\ total = 2
    /\ result[1] \in {"ok", "fail"}
    /\ result[2] = "cancelled"
    /\ \E p \in Positions("start_file") :
          events[p].name = 2 /\ Closers(p) = {Len(events)}

AllOk == \A i \in 1..total : result[i] = "ok"

\* C6: every event the worker put, the terminal one included, is handled by
\* poll_queue once polling has stopped; for N successful files the consumer
\* has seen N start_file, N end_file{ok}, overall N/N and done_all.
C6_ConsumerHandlesAll ==
    pollPc \in {"stopped", "exited"} =>
        /\ queue = <<>>
        /\ handled = events
        /\ AllOk =>
              /\ handled # <<>>
              /\ handled[Len(handled)].type = "done_all"
              /\ done_count = total
              /\ ui_overall = total

\* C7: when every subprocess launches and exits with code zero and the flag
\* is never set, the last overall has done = N = total, there are exactly N
\* end_file, and exactly one done_all follows all of them.
C7_AllSucceed ==
    (pc = "returned" /\ ~stop_flag /\ AllOk) =>
        /\ CountOf("end_file") = total
        /\ \A p \in Positions("end_file") : events[p].ok
        /\ CountOf("done_all") = 1
        /\ \A p \in Positions("done_all") :
              \A q \in Positions("end_file") : q < p
        /\ LET o == Positions("overall")
               last == CHOOSE q \in o : \A r \in o : r <= q
           IN /\ o # {}
              /\ events[last].done = total
              /\ events[last].total = total

C7_Witness ==
    /\ pc = "returned"
    /\ ~stop_flag
    /\ AllOk
    /\ total = MaxFiles
    /\ CountOf("done_all") = 1

\* C8: a non-zero exit code gives end_file{ok: false} for that file, no
\* error event, and the worker goes on to the next file unless the flag
\* is set.
C8_FailedFileContinues ==
    /\ \A i \in 1..total :
          result[i] = "fail" <=> Emitted(EndFileEv(i, FALSE))
    /\ \A p \in Positions("end_file") :
          ~events[p].ok =>
             /\ p + 1 <= Len(events)
             /\ events[p + 1].type = "overall"
             /\ p + 2 <= Len(events) =>
                   \/ events[p + 2] = StartFileEv(events[p].name + 1)
                   \/ /\ events[p + 2].type = "done_all"
                      /\ events[p].name = total \/ stop_flag
             /\ (pc = "returned" /\ ~stop_flag /\ events[p].name < total) =>
                   Emitted(StartFileEv(events[p].name + 1))

C8_Witness ==
    /\ total = 2
    /\ result[1] = "fail"
    /\ ~stop_flag
    /\ Emitted(StartFileEv(2))

\* C9: a launch failure for file i gives exactly one error event, no
\* end_file or overall for file i, no start_file for a later file, and the
\* run ends with done_all.
C9_LaunchFailureAborts ==
    \A i \in 1..total :
        result[i] = "launch_fail" =>
            /\ CountOf("error") = 1
            /\ \A p \in Positions("start_file") : events[p].name <= i
            /\ \A p \in Positions("end_file") : events[p].name < i
            /\ CountOf("overall") = i - 1
            /\ \E p \in Positions("start_file") :
                  /\ events[p].name = i
                  /\ p + 1 <= Len(events)
                  /\ events[p + 1].type = "error"
                  /\ Len(events) <= p + 2
                  /\ Len(events) = p + 2 => events[p + 2].type = "done_all"
                  /\ pc = "returned" => Len(events) = p + 2

C9_Witness ==
    /\ total = 2
    /\ result[1] = "ok"
    /\ result[2] = "launch_fail"
    /\ pc = "returned"

\* C10: no failure escapes worker_thread as an uncaught exception, so the
\* worker never ends without a terminal event on the queue.
C10_NoFailureEscapes ==
    /\ pc # "crashed"
    /\ ~threadAlive => Terminals # {}

\* ------------------------------------------------- one job and its parser
\* The worker on a single input file whose subprocess writes up to
\* MaxParseLines lines drawn from RichLines, at any pace in RichDts; nobody
\* cancels and nothing fails.
InitParser ==
    /\ total = 1
    /\ stop_flag = FALSE
    /\ pc = "mkdir"
    /\ threadAlive = TRUE
    /\ idx = 1
    /\ done = 0
    /\ procAlive = FALSE
    /\ stdoutOpen = FALSE
    /\ orphans = 0
    /\ returncode = NoneVal
    /\ pipe = 0
    /\ linesLeft = MaxParseLines
    /\ processed = 0
    /\ speed = FALSE
    /\ since_emit = 0
    /\ events = <<>>
    /\ queue = <<>>
    /\ handled = <<>>
    /\ pollPc = "scheduled"
    /\ dlg_cancelled = FALSE
    /\ done_mode = FALSE
    /\ done_count = 0
    /\ ui_overall = 0
    /\ result = [i \in 1..total |-> "none"]
    /\ flagSetDuring = 0
    /\ seenMax = 0
    /\ seenSpeed = FALSE
    /\ seenLower = FALSE
    /\ lastGap = NoneVal
    /\ cands = <<>>
    /\ disk = {}
    /\ out_path = <<>>
    /\ produced = {}

ReadLineRich == ReadLineOf(RichLines, RichDts)

NextParser ==
    \/ Mkdir
    \/ LoopTop
    \/ StartFile
    \/ Launch
    \/ ReadLineRich
    \/ EndFile
    \/ DoneAll
    \/ ThreadExit
    \/ ProcWrite
    \/ ProcCloseStdout
    \/ ProcExit

ParserSpec == InitParser /\ [][NextParser]_vars

\* the prog_file events of the job that the start_file at position p opened
ProgOf(p) == {q \in Segment(p) : events[q].type = "prog_file"}

\* C11: within one job, whatever lines the subprocess writes (out_time_ms
\* rising, falling, negative or malformed, speed lines, unknown keys),
\* `processed` never decreases from one line to the next and is never
\* negative, so the processed fields of the job's successive prog_file
\* events are non-decreasing and non-negative.
C11_ProcessedMonotone ==
    /\ [][pc = "read" => processed' >= processed]_vars
    /\ [](/\ processed >= 0
          /\ \A p \in Positions("start_file") :
               \A q \in ProgOf(p), r \in ProgOf(p) :
                   /\ events[q].processed >= 0
                   /\ q < r => events[q].processed <= events[r].processed)

C11_Witness ==
    /\ seenLower
    /\ processed = 2000000
    /\ \E p \in Positions("start_file") :
         \E q \in ProgOf(p), r \in ProgOf(p) :
             /\ q < r
             /\ events[q].processed = 2000000
             /\ events[r].processed = 2000000

\* the subprocesses of the run that are alive
AliveCount == orphans + (IF procAlive THEN 1 ELSE 0)

\* C12: at most one encoder subprocess is alive at any moment, and the
\* files are taken strictly in input order: the start_file of file i+1 is
\* put only after the subprocess of file i has exited and its end_file and
\* overall have been put.
C12_OneSubprocessInOrder ==
    /\ AliveCount <= 1
    /\ pc \in {"loop", "prep", "launch"} => ~procAlive
    /\ \A p \in Positions("start_file") :
         /\ events[p].name =
                Cardinality({q \in Positions("start_file") : q <= p})
         /\ events[p].name > 1 =>
              /\ p > 2
              /\ events[p - 2].type = "end_file"
              /\ events[p - 2].name = events[p].name - 1
              /\ events[p - 1].type = "overall"

C12_Witness ==
    /\ total = 2
    /\ CountOf("start_file") = 2
    /\ pc = "read"
    /\ procAlive
    /\ orphans = 0

\* the end_file events with ok = true among the first p events
OkEndsUpTo(p) ==
    {q \in Positions("end_file") : q <= p /\ events[q].ok}

\* C13: in every overall event done <= total, and done is the number of
\* end_file events with ok = true put so far; done never decreases from
\* one overall event to the next.
C13_OverallCountsOkFiles ==
    \A p \in Positions("overall") :
        /\ events[p].total = total
        /\ events[p].done <= events[p].total
        /\ events[p].done = Cardinality(OkEndsUpTo(p))
        /\ \A q \in Positions("overall") :
               q < p => events[q].done <= events[p].done

C13_Witness ==
    /\ total = 2
    /\ result = <<"fail", "ok">>
    /\ \E p \in Positions("overall"), q \in Positions("overall") :
          /\ p < q
          /\ events[p].done = 0
          /\ events[q].done = 1

HandledHas(t) == \E p \in DOMAIN handled : handled[p].type = t

\* C14: once poll_queue has handled a cancelled or a done_all event it
\* stops polling: no further invocation of poll_queue is scheduled.
C14_NoPollAfterTerminal ==
    (HandledHas("cancelled") \/ HandledHas("done_all")) =>
        pollPc # "scheduled"

\* C15: poll_queue handles the events in exactly the order the worker put
\* them: the handled sequence is always a prefix of the sequence put, with
\* nothing handled twice, skipped or reordered.
C15_HandledIsPrefix ==
    /\ Len(handled) <= Len(events)
    /\ handled = SubSeq(events, 1, Len(handled))
    /\ queue = SubSeq(events, Len(handled) + 1, Len(events))

C15_Witness ==
    /\ Len(handled) >= 2
    /\ Len(queue) >= 2
    /\ handled[1] # handled[2]
    /\ queue[1] # queue[2]

InitPath ==
    /\ total \in FileCounts
    /\ cands \in [1..total -> CandNames]
    /\ disk \in SUBSET DiskNames
    /\ out_path = <<>>
    /\ produced = {}
    /\ pc = "resolve"
    /\ idx = 1
    /\ stop_flag = FALSE
    /\ threadAlive = TRUE
    /\ done = 0
    /\ procAlive = FALSE
    /\ stdoutOpen = FALSE
    /\ orphans = 0
    /\ returncode = NoneVal
    /\ pipe = 0
    /\ linesLeft = MaxLines
    /\ processed = 0
    /\ speed = FALSE
    /\ since_emit = 0
    /\ events = <<>>
    /\ queue = <<>>
    /\ handled = <<>>
    /\ pollPc = "scheduled"
    /\ dlg_cancelled = FALSE
    /\ done_mode = FALSE
    /\ done_count = 0
    /\ ui_overall = 0
    /\ result = [i \in 1..total |-> "none"]
    /\ flagSetDuring = 0
    /\ seenMax = 0
    /\ seenSpeed = FALSE
    /\ seenLower = FALSE
    /\ lastGap = NoneVal

\* lines 316-320: out_path = ensure_unique_path(out_dir / out_name)
PathResolve ==
    /\ pc = "resolve"
    /\ idx <= total
    /\ out_path' = ensure_unique_path(cands[idx], disk)
    /\ pc' = "encode"
    /\ UNCHANGED <<total, idx, cands, disk, produced>>
    /\ UNCHANGED <<stop_flag, threadAlive, done, processed, speed, since_emit,
                   result, events, queue, flagSetDuring>>
    /\ UNCHANGED procVars
    /\ UNCHANGED uiVars
    /\ UNCHANGED seenVars

\* lines 329-397: ffmpeg runs with `-y ... out_path` and exits, having
\* written out_path or having failed before creating it
PathEncode ==
    /\ pc = "encode"
    /\ \E written \in BOOLEAN :
         /\ disk' = IF written THEN disk \cup {out_path} ELSE disk
         /\ produced' = IF written THEN produced \cup {out_path} ELSE produced
    /\ idx' = idx + 1
    /\ pc' = "resolve"
    /\ UNCHANGED <<total, cands, out_path>>
    /\ UNCHANGED <<stop_flag, threadAlive, done, processed, speed, since_emit,
                   result, events, queue, flagSetDuring>>
    /\ UNCHANGED procVars
    /\ UNCHANGED uiVars
    /\ UNCHANGED seenVars

NextPath ==
    \/ PathResolve
    \/ PathEncode

PathSpec == InitPath /\ [][NextPath]_vars

\* C17: ensure_unique_path never returns a path that exists: it returns the
\* candidate if that does not exist, and otherwise stem_i + suffix for the
\* smallest i >= 1 that does not exist; hence in a sequential batch the
\* output path of a job is never a file that an earlier job produced.
C17_UniquePath ==
    pc = "encode" =>
        LET c == cands[idx]
        IN /\ out_path \notin disk
           /\ c \notin disk => out_path = c
           /\ c \in disk =>
                \E i \in 1..(Cardinality(disk) + 1) :
                    /\ out_path = with_index(c, i)
                    /\ \A j \in 1..(i - 1) : with_index(c, j) \in disk
           /\ out_path \notin produced

C17_Witness ==
    /\ pc = "encode"
    /\ idx = 2
    /\ cands = <<<<1>>, <<1>>>>
    /\ produced = {<<1, 1>>}
    /\ out_path = <<1, 2>>

\* C18: prog_file events are throttled to at most one per 200 ms of wall
\* time: between two consecutive prog_file events of a job, and between the
\* launch of its subprocess and its first prog_file, at least 200 ms pass;
\* and every non-blank line is still parsed into processed and speed,
\* whether or not an event is put for it.
C18_Throttled ==
    /\ lastGap # NoneVal => lastGap >= EmitPeriod
    /\ (lastGap = NoneVal /\ pc = "read") =>
           \A p \in Positions("start_file") : ProgOf(p) = {}
    /\ pc = "read" => (processed = seenMax /\ speed = seenSpeed)

C18_Witness ==
    /\ pc = "read"
    /\ CountOf("prog_file") = 1
    /\ \A p \in Positions("prog_file") : events[p].processed = 1000000
    /\ lastGap > EmitPeriod
    /\ processed = 2000000
    /\ since_emit = 1

\* the events a step puts
NewEvents == SubSeq(events', Len(events) + 1, Len(events'))
PutsType(t) == \E p \in DOMAIN NewEvents : NewEvents[p].type = t

====
